---- MODULE Spec2Model ----
(***************************************************************************)
(* A model of toy.cpp: the Kaleidoscope front end (token stream, recursive *)
(* descent / operator precedence parser, AST, code generator over the      *)
(* NamedValues scope and TheModule, and the driver loop of main).          *)
(*                                                                         *)
(* The character stream is modelled at the granularity of the tokens that  *)
(* gettok cuts it into.  LLVM is modelled by what the calls made in        *)
(* toy.cpp do to the module, the current block and the symbol tables.      *)
(***************************************************************************)
EXTENDS Integers, Sequences, FiniteSets, TLC

VARIABLES
    input,          \* the part of stdin that gettok has not read yet
    CurTok,         \* static int CurTok
    IdentifierStr,  \* static std::string IdentifierStr
    NumVal,         \* static double NumVal
    NamedValues,    \* static std::map<std::string, llvm::Value *> NamedValues
    TheModule,      \* the function list of *TheModule, in creation order
    pc,             \* "loop": in main's while; "done": returned 0; "abort": killed
    unit            \* what the last iteration of main's loop did (history)

vars == <<input, CurTok, IdentifierStr, NumVal, NamedValues, TheModule, pc, unit>>

-----------------------------------------------------------------------------
(* Bounds of the model. *)

\* Programs are made of at most MaxUnits top-level units of the catalogue.
MaxUnits == 2
\* Operator chains  primary (OP primary)*  have at most MaxOps operators.
MaxOps == 3

-----------------------------------------------------------------------------
(* Small helpers. *)

RECURSIVE Flatten(_)
Flatten(ss) == IF ss = << >> THEN << >> ELSE Head(ss) \o Flatten(Tail(ss))

-----------------------------------------------------------------------------
(* Tokens of the input, as gettok cuts them. *)

W(s) == [t |-> "word", s |-> s, n |-> 0]     \* [A-Za-z][A-Za-z0-9]*
N(n) == [t |-> "num", s |-> "", n |-> n]     \* [0-9.]+
C(c) == [t |-> "ch", s |-> c, n |-> 0]       \* any other single character

\* The value of Token returned for an alphabetic run.
Keyword(s) ==
    CASE s = "def" -> "tok_def"
      [] s = "extern" -> "tok_extern"
      [] s = "var" -> "tok_var"
      [] OTHER -> "tok_identifier"

(***************************************************************************)
(* The parser's view of the lexer: p is the record of the globals the      *)
(* parser reads and writes,                                                *)
(*   in   the unread input        tok  CurTok                              *)
(*   ids  IdentifierStr           num  NumVal                              *)
(*   err  a LogError was printed  n    tokens read by getNextToken         *)
(***************************************************************************)
gettok(p) ==
    IF p.in = << >>
    THEN [p EXCEPT !.tok = "tok_eof"]
    ELSE LET c == Head(p.in)
             q == [p EXCEPT !.in = Tail(p.in)]
         IN  CASE c.t = "word" -> [q EXCEPT !.ids = c.s, !.tok = Keyword(c.s)]
               [] c.t = "num" -> [q EXCEPT !.num = c.n, !.tok = "tok_number"]
               [] OTHER -> [q EXCEPT !.tok = c.s]

getNextToken(p) == [gettok(p) EXCEPT !.n = p.n + 1]

BinopPrecedence(c) ==
    CASE c = "<" -> 10
      [] c = "+" -> 20
      [] c = "-" -> 20
      [] c = "*" -> 40
      [] OTHER -> 0

IsTokenEnum(tok) ==
    tok \in {"tok_eof", "tok_def", "tok_extern", "tok_var", "tok_identifier", "tok_number"}

GetTokPrecedence(p) ==
    IF IsTokenEnum(p.tok)
    THEN -1
    ELSE IF BinopPrecedence(p.tok) <= 0 THEN -1 ELSE BinopPrecedence(p.tok)

-----------------------------------------------------------------------------
(* AST nodes.  Null is the null unique_ptr. *)

Null == [k |-> "null"]
DummyExprAST == [k |-> "Dummy"]
NumberExprAST(Val) == [k |-> "Number", Val |-> Val]
VariableExprAST(Name) == [k |-> "Variable", Name |-> Name]
BinaryExprAST(Op, LHS, RHS) == [k |-> "Binary", Op |-> Op, LHS |-> LHS, RHS |-> RHS]
CallExprAST(Callee, Args) == [k |-> "Call", Callee |-> Callee, Args |-> Args]
VarExprAST(VarNames, Body) == [k |-> "Var", VarNames |-> VarNames, Body |-> Body]
PrototypeAST(Name, Args) == [k |-> "Prototype", Name |-> Name, Args |-> Args]
FunctionAST(Proto, Body) == [k |-> "Function", Proto |-> Proto, Body |-> Body]

\* A std::vector built by a loop of a parser routine.
Vec(v) == [k |-> "vector", v |-> v]

\* The result of a parser routine: the globals after it, and what it returns.
Ret(p, r) == [p |-> p, r |-> r]

\* LogError<std::unique_ptr<ExprAST>>: prints, and returns a DummyExprAST.
LogErrorExpr(p) == Ret([p EXCEPT !.err = TRUE], DummyExprAST)

\* LogError<std::unique_ptr<PrototypeAST>>: prints, and returns nullptr.
LogErrorProto(p) == Ret([p EXCEPT !.err = TRUE], Null)

-----------------------------------------------------------------------------
(* The parser. *)
(***************************************************************************)
(* A routine that tests what a callee returned is written as the routine   *)
(* up to the call and an operator for the rest of it, applied to the       *)
(* callee's result.                                                        *)
(***************************************************************************)

RECURSIVE ParseExpression(_), ParsePrimary(_), ParseBinOpRHS(_, _, _)
RECURSIVE ParseParenExpr(_), ParseIdentifierExpr(_), ParseVarExpr(_)
RECURSIVE ParseCallArgs(_, _), ParseVarNames(_, _)

ParseNumberExpr(p) == Ret(getNextToken(p), NumberExprAST(p.num))

\* ParseParenExpr after V = ParseExpression().
ParenClose(V) ==
    IF V.r = Null THEN V
    ELSE IF V.p.tok # ")" THEN LogErrorExpr(V.p)
    ELSE Ret(getNextToken(V.p), V.r)

ParseParenExpr(p) == ParenClose(ParseExpression(getNextToken(p)))

\* One turn of the while (true) of ParseIdentifierExpr after Arg = ParseExpression():
\* the Args vector at the break, or what ParseIdentifierExpr returns early.
CallArgParsed(Arg, Args) ==
    IF Arg.r = Null THEN Arg
    ELSE IF Arg.p.tok = ")" THEN Ret(Arg.p, Vec(Append(Args, Arg.r)))
    ELSE IF Arg.p.tok # "," THEN LogErrorExpr(Arg.p)
    ELSE ParseCallArgs(getNextToken(Arg.p), Append(Args, Arg.r))

\* The while (true) of ParseIdentifierExpr.
ParseCallArgs(p, Args) == CallArgParsed(ParseExpression(p), Args)

\* ParseIdentifierExpr after the argument list: eat ')'.
CallClose(IdName, A) ==
    IF A.r.k # "vector" THEN A
    ELSE Ret(getNextToken(A.p), CallExprAST(IdName, A.r.v))

\* ParseIdentifierExpr after eating '('.
CallOpen(IdName, p) ==
    IF p.tok # ")"
    THEN CallClose(IdName, ParseCallArgs(p, << >>))
    ELSE CallClose(IdName, Ret(p, Vec(<< >>)))

\* ParseIdentifierExpr after eating the identifier.
IdentifierEaten(IdName, p) ==
    IF p.tok # "("
    THEN Ret(p, VariableExprAST(IdName))
    ELSE CallOpen(IdName, getNextToken(p))

ParseIdentifierExpr(p) == IdentifierEaten(p.ids, getNextToken(p))

\* One turn of the while (true) of ParseVarExpr after eating ','.
VarComma(p, VN) ==
    IF p.tok # "tok_identifier" THEN LogErrorExpr(p) ELSE ParseVarNames(p, VN)

\* One turn of the while (true) of ParseVarExpr from VarNames.push_back: the
\* VarNames vector at the break, or what ParseVarExpr returns early.
VarPush(Name, I, VarNames) ==
    IF I.p.tok # ","
    THEN Ret(I.p, Vec(Append(VarNames, [name |-> Name, init |-> I.r])))
    ELSE VarComma(getNextToken(I.p), Append(VarNames, [name |-> Name, init |-> I.r]))

\* One turn of the while (true) of ParseVarExpr after Init = ParseExpression().
VarInitParsed(Name, I, VarNames) ==
    IF I.r = Null THEN Ret(I.p, Null) ELSE VarPush(Name, I, VarNames)

\* One turn of the while (true) of ParseVarExpr after eating the identifier.
VarNameEaten(Name, p, VarNames) ==
    IF p.tok = "="
    THEN VarInitParsed(Name, ParseExpression(getNextToken(p)), VarNames)
    ELSE VarPush(Name, Ret(p, Null), VarNames)

\* The while (true) of ParseVarExpr, entered with CurTok == tok_identifier.
ParseVarNames(p, VarNames) == VarNameEaten(p.ids, getNextToken(p), VarNames)

\* ParseVarExpr after Body = ParseExpression().
VarBodyParsed(VarNames, Body) ==
    IF Body.r = Null THEN Body ELSE Ret(Body.p, VarExprAST(VarNames, Body.r))

\* if (IdentifierStr != "in") of ParseVarExpr, with a note of the globals it
\* was reached with and of whether ParseVarExpr went on to getNextToken().
InTested(p, eaten) ==
    [p EXCEPT !.vin = Append(@, [tok |-> p.tok, ids |-> p.ids, eaten |-> eaten])]

\* ParseVarExpr after the while (true).
VarIn(V) ==
    IF V.r.k # "vector" THEN V
    ELSE IF V.p.ids # "in" THEN LogErrorExpr(InTested(V.p, FALSE))
    ELSE VarBodyParsed(V.r.v, ParseExpression(getNextToken(InTested(V.p, TRUE))))

\* ParseVarExpr after eating 'var'.
VarEaten(p) ==
    IF p.tok # "tok_identifier" THEN LogErrorExpr(p) ELSE VarIn(ParseVarNames(p, << >>))

ParseVarExpr(p) == VarEaten(getNextToken(p))

ParsePrimary(p) ==
    CASE p.tok = "tok_identifier" -> ParseIdentifierExpr(p)
      [] p.tok = "tok_number" -> ParseNumberExpr(p)
      [] p.tok = "(" -> ParseParenExpr(p)
      [] p.tok = "tok_var" -> ParseVarExpr(p)
      [] OTHER -> LogErrorExpr(p)

\* One turn of the while (true) of ParseBinOpRHS from LHS = BinaryExprAST(...).
BinOpMerge(ExprPrec, BinOp, LHS, RHS) ==
    IF RHS.r = Null THEN RHS
    ELSE ParseBinOpRHS(ExprPrec, BinaryExprAST(BinOp, LHS, RHS.r), RHS.p)

\* The same with  TokPrec <= NextPrec : equal precedences group to the right.
BinOpRHSParsedRight(ExprPrec, TokPrec, BinOp, LHS, RHS) ==
    IF RHS.r = Null THEN RHS
    ELSE IF TokPrec <= GetTokPrecedence(RHS.p)
    THEN BinOpMerge(ExprPrec, BinOp, LHS, ParseBinOpRHS(TokPrec, RHS.r, RHS.p))
    ELSE BinOpMerge(ExprPrec, BinOp, LHS, RHS)

\* One turn of the while (true) of ParseBinOpRHS after RHS = ParsePrimary().
BinOpRHSParsed(ExprPrec, TokPrec, BinOp, LHS, RHS) ==
    IF RHS.r = Null THEN RHS
    ELSE IF TokPrec < GetTokPrecedence(RHS.p)
    THEN BinOpMerge(ExprPrec, BinOp, LHS, ParseBinOpRHS(TokPrec + 1, RHS.r, RHS.p))
    ELSE BinOpMerge(ExprPrec, BinOp, LHS, RHS)

ParseBinOpRHS(ExprPrec, LHS, p) ==
    IF GetTokPrecedence(p) < ExprPrec
    THEN Ret(p, LHS)
    ELSE BinOpRHSParsed(ExprPrec, GetTokPrecedence(p), p.tok, LHS,
                        ParsePrimary(getNextToken(p)))

\* ParseExpression after LHS = ParsePrimary().
ExprLHSParsed(LHS) ==
    IF LHS.r = Null THEN LHS ELSE ParseBinOpRHS(0, LHS.r, LHS.p)

ParseExpression(p) == ExprLHSParsed(ParsePrimary(p))

\* while (getNextToken() == tok_identifier) ArgNames.push_back(IdentifierStr);
RECURSIVE ParseArgNames(_, _)
ArgNameRead(p, ArgNames) ==
    IF p.tok = "tok_identifier"
    THEN ParseArgNames(p, Append(ArgNames, p.ids))
    ELSE Ret(p, ArgNames)

ParseArgNames(p, ArgNames) == ArgNameRead(getNextToken(p), ArgNames)

\* ParsePrototype after the while.
ProtoClose(FnName, A) ==
    IF A.p.tok # ")"
    THEN LogErrorProto(A.p)
    ELSE Ret(getNextToken(A.p), PrototypeAST(FnName, A.r))

\* ParsePrototype after eating the function name.
ProtoNameEaten(FnName, p) ==
    IF p.tok # "(" THEN LogErrorProto(p) ELSE ProtoClose(FnName, ParseArgNames(p, << >>))

ParsePrototype(p) ==
    IF p.tok # "tok_identifier"
    THEN LogErrorProto(p)
    ELSE ProtoNameEaten(p.ids, getNextToken(p))

\* ParseDefinition after E = ParseExpression().
DefBodyParsed(Proto, E) ==
    IF E.r # Null THEN Ret(E.p, FunctionAST(Proto, E.r)) ELSE Ret(E.p, Null)

\* ParseDefinition after Proto = ParsePrototype().
DefProtoParsed(Proto) ==
    IF Proto.r = Null THEN Proto ELSE DefBodyParsed(Proto.r, ParseExpression(Proto.p))

ParseDefinition(p) == DefProtoParsed(ParsePrototype(getNextToken(p)))

ParseExtern(p) == ParsePrototype(getNextToken(p))

-----------------------------------------------------------------------------
(* LLVM values, instructions and the module, as toy.cpp uses them. *)

NullV == [k |-> "null", id |-> 0]         \* (llvm::Value *) nullptr
ConstantFP == [k |-> "const", id |-> 0]   \* a double constant
Argument(i) == [k |-> "arg", id |-> i]    \* &Arg, the i-th llvm::Argument
AllocaV(id) == [k |-> "alloca", id |-> id]
InstV(id) == [k |-> "inst", id |-> id]

Inst(op, id, a, callee) == [op |-> op, id |-> id, a |-> a, callee |-> callee]

\* TheModule->getFunction(Name): the index in the function list, 0 for nullptr.
getFunction(m, Name) ==
    IF \E i \in 1..Len(m) : m[i].name = Name
    THEN CHOOSE i \in 1..Len(m) : m[i].name = Name
    ELSE 0

\* A symbol table never holds a name twice: a value named like one it already
\* holds gets a numeric suffix.
RECURSIVE UniqueName(_, _, _, _)
UniqueName(taken, Name, sep, k) ==
    IF Name \notin taken THEN Name
    ELSE IF (Name \o sep \o ToString(k)) \notin taken
    THEN Name \o sep \o ToString(k)
    ELSE UniqueName(taken, Name, sep, k + 1)

\* for (auto &Arg : F->args()) Arg.setName(Args[Idx++]);
RECURSIVE SetArgNames(_, _)
SetArgNames(Args, done) ==
    IF Args = << >> THEN done
    ELSE SetArgNames(Tail(Args),
                     Append(done, UniqueName({done[i] : i \in 1..Len(done)}, Head(Args), "", 1)))

\* PrototypeAST::codegen: the module with the new declaration at its end.
PrototypeCodegen(Proto, m) ==
    Append(m, [name |-> UniqueName({m[i].name : i \in 1..Len(m)}, Proto.Name, ".", 1),
               args |-> SetArgNames(Proto.Args, << >>),
               blocks |-> << >>])

\* llvm::BasicBlock::Create(..., TheFunction) and what the builder inserted in it.
AppendBlock(m, F, block) == [m EXCEPT ![F].blocks = Append(@, block)]

\* The same without erasing.
eraseFromParentKeeps(m, F) == m

\* TheFunction->eraseFromParent()
eraseFromParent(m, F) == SubSeq(m, 1, F - 1) \o SubSeq(m, F + 1, Len(m))

\* Whether a call instruction of another function of the module uses function F.
HasUses(m, F) ==
    \E i \in 1..Len(m) : i # F /\
        \E b \in 1..Len(m[i].blocks) : \E j \in 1..Len(m[i].blocks[b]) :
            m[i].blocks[b][j].op = "call" /\ m[i].blocks[b][j].callee = m[F].name

-----------------------------------------------------------------------------
(***************************************************************************)
(* The code generator.  g is what lowering reads and writes besides the    *)
(* module:                                                                 *)
(*   nv   NamedValues                  ins  the instructions of the block  *)
(*   nid  the next fresh value         ev   what happened, in order        *)
(*   ub   an instruction was built from operands LLVM does not allow       *)
(***************************************************************************)

\* NamedValues[Name]: operator[] inserts a null entry for a missing key.
Subscript(nv, Name) == IF Name \in DOMAIN nv THEN nv ELSE nv @@ (Name :> NullV)
At(nv, Name) == IF Name \in DOMAIN nv THEN nv[Name] ELSE NullV
Assign(nv, Name, V) == (Name :> V) @@ nv

\* Builder->Create...: one instruction at the insertion point.
Emit(g, op, a, callee) ==
    [g EXCEPT !.ins = Append(@, Inst(op, g.nid, a, callee)), !.nid = @ + 1]

Log(g, e) == [g EXCEPT !.ev = Append(@, e)]

Val(g, v) == [g |-> g, v |-> v]

\* Events of the lowering.
EvRef(Name, V) == [k |-> "ref", name |-> Name, v |-> V]
EvInit(d, i, Name, nv) == [k |-> "init", d |-> d, i |-> i, name |-> Name, nv |-> nv]
EvInstall(d, i, Name, V, Old, nv) ==
    [k |-> "install", d |-> d, i |-> i, name |-> Name, v |-> V, old |-> Old, nv |-> nv]
EvVarEnd(d, why, names, nv0, nv1) ==
    [k |-> "varend", d |-> d, why |-> why, names |-> names, nv0 |-> nv0, nv1 |-> nv1]
EvCall(Callee, n, found, arity, emitted, argv, inst) ==
    [k |-> "call", callee |-> Callee, n |-> n, found |-> found, arity |-> arity,
     emitted |-> emitted, argv |-> argv, inst |-> inst]
EvBody(F, nv) == [k |-> "body", fn |-> F.name, args |-> F.args, nv |-> nv]

\* VariableExprAST::codegen after V = NamedValues[Name], which g.nv now holds.
VariableLoad(Name, V, g) ==
    IF V = NullV
    THEN Val(g, NullV)
    ELSE Val([Emit(g, "load", <<V>>, "") EXCEPT !.ub = @ \/ V.k # "alloca"], InstV(g.nid))

\* VariableExprAST::codegen
VariableCodegen(e, g) ==
    VariableLoad(e.Name, At(g.nv, e.Name),
                 Log([g EXCEPT !.nv = Subscript(g.nv, e.Name)],
                     EvRef(e.Name, At(g.nv, e.Name))))

\* L = Builder->CreateFCmpULT(L, R); return Builder->CreateUIToFP(L, ...);
EmitCompare(L, R, g) ==
    Val([g EXCEPT !.ins = @ \o <<Inst("fcmp", g.nid, <<L, R>>, ""),
                                 Inst("uitofp", g.nid + 1, <<InstV(g.nid)>>, "")>>,
                  !.nid = @ + 2],
        InstV(g.nid + 1))

\* The switch of BinaryExprAST::codegen; the builder folds constant operands.
BinaryEmit(Op, L, R, g) ==
    CASE Op \in {"+", "-", "*"} ->
           IF L.k = "const" /\ R.k = "const" THEN Val(g, ConstantFP)
           ELSE Val(Emit(g, Op, <<L, R>>, ""), InstV(g.nid))
      [] Op = "<" ->
           IF L.k = "const" /\ R.k = "const" THEN Val(g, ConstantFP)
           ELSE EmitCompare(L, R, g)
      [] OTHER -> Val(g, NullV)

\* The same without the test of the argument count.
ArgSizeNeverDiffers(CalleeF, Args) == FALSE

\* if (CalleeF->arg_size() != Args.size())
ArgSizeDiffers(CalleeF, Args) == Len(CalleeF.args) # Len(Args)

\* ArgsV.push_back(ArgVal)
Pushed(ArgsV, ArgVal) == Append(ArgsV, ArgVal)

\* The same without clearing.
clearKeeps(nv) == nv

\* NamedValues.clear()
clear(nv) == << >>

\* for (auto &Arg : TheFunction->args()) NamedValues[Arg.getName()] = &Arg;
RECURSIVE BindArgs(_, _, _)
BindArgs(nv, args, i) ==
    IF i > Len(args) THEN nv
    ELSE BindArgs(Assign(nv, args[i], Argument(i)), args, i + 1)

RECURSIVE codegen(_, _, _)
RECURSIVE CallArgs(_, _, _, _, _), VarBindings(_, _, _, _, _, _), Restore(_, _, _, _)

\* One turn of the argument loop of CallExprAST::codegen after ArgVal = codegen().
CallArgLowered(Args, i, ArgsV, A, m) ==
    IF A.v = NullV
    THEN [g |-> A.g, v |-> NullV, ArgsV |-> ArgsV]
    ELSE CallArgs(Args, i + 1, Pushed(ArgsV, A.v), A.g, m)

\* The argument loop of CallExprAST::codegen: ArgsV, or null at the first failure.
CallArgs(Args, i, ArgsV, g, m) ==
    IF i > Len(Args) THEN [g |-> g, v |-> ConstantFP, ArgsV |-> ArgsV]
    ELSE CallArgLowered(Args, i, ArgsV, codegen(Args[i], g, m), m)

\* CallExprAST::codegen after the argument loop.
CallEmit(e, CalleeF, A) ==
    IF A.v = NullV
    THEN Val(Log(A.g, EvCall(e.Callee, Len(e.Args), TRUE, Len(CalleeF.args),
                             FALSE, A.ArgsV, 0)), NullV)
    ELSE Val(Log(Emit(A.g, "call", A.ArgsV, CalleeF.name),
                 EvCall(e.Callee, Len(e.Args), TRUE, Len(CalleeF.args),
                        TRUE, A.ArgsV, A.g.nid)),
             InstV(A.g.nid))

\* CallExprAST::codegen after CalleeF = TheModule->getFunction(Callee), CalleeF
\* being the index of the function in the module, 0 for nullptr.
CallResolved(e, CalleeF, g, m) ==
    IF CalleeF = 0
    THEN Val(Log(g, EvCall(e.Callee, Len(e.Args), FALSE, 0, FALSE, << >>, 0)), NullV)
    ELSE IF ArgSizeDiffers(m[CalleeF], e.Args)
    THEN Val(Log(g, EvCall(e.Callee, Len(e.Args), TRUE, Len(m[CalleeF].args),
                           FALSE, << >>, 0)), NullV)
    ELSE CallEmit(e, m[CalleeF], CallArgs(e.Args, 1, << >>, g, m))

\* CallExprAST::codegen
CallCodegen(e, g, m) == CallResolved(e, getFunction(m, e.Callee), g, m)

\* VarExprAST::codegen lines 213-217: the alloca, the store, and the name
\* installed over what it had, which is yielded as Old.
Install(Var, i, d, InitVal, g) ==
    [g |-> Log([g EXCEPT !.ins = @ \o <<Inst("alloca", g.nid, << >>, Var.name),
                                        Inst("store", g.nid + 1,
                                             <<InitVal, AllocaV(g.nid)>>, "")>>,
                         !.nid = @ + 2,
                         !.nv = Assign(g.nv, Var.name, AllocaV(g.nid))],
               EvInstall(d, i, Var.name, AllocaV(g.nid), At(g.nv, Var.name),
                         Assign(g.nv, Var.name, AllocaV(g.nid)))),
     v |-> AllocaV(g.nid),
     Old |-> At(g.nv, Var.name)]

\* One turn of the first loop of VarExprAST::codegen after InitVal is computed.
InitLowered(Var, i, d, I) ==
    IF I.v = NullV
    THEN [g |-> I.g, v |-> NullV, Old |-> NullV]
    ELSE Install(Var, i, d, I.v, I.g)

\* The lowering of the initializer Var.second, from the state after the
\* bindings before it.
LowerInit(Var, i, d, g, m) ==
    IF Var.init # Null
    THEN codegen(Var.init, Log(g, EvInit(d, i, Var.name, g.nv)), m)
    ELSE Val(Log(g, EvInit(d, i, Var.name, g.nv)), ConstantFP)

\* One turn of the first loop of VarExprAST::codegen.
Bind(Var, i, d, g, m) == InitLowered(Var, i, d, LowerInit(Var, i, d, g, m))

\* One turn of the first loop of VarExprAST::codegen after its body.
Bound(VarNames, i, d, OldBindings, B, m) ==
    IF B.v = NullV
    THEN [g |-> B.g, v |-> NullV, OldBindings |-> OldBindings]
    ELSE VarBindings(VarNames, i + 1, d, Append(OldBindings, B.Old), B.g, m)

\* The first loop of VarExprAST::codegen: OldBindings, or null at the first failure.
VarBindings(VarNames, i, d, OldBindings, g, m) ==
    IF i > Len(VarNames) THEN [g |-> g, v |-> ConstantFP, OldBindings |-> OldBindings]
    ELSE Bound(VarNames, i, d, OldBindings, Bind(VarNames[i], i, d, g, m), m)

\* for (auto &Var : VarNames) NamedValues[Var.first] = OldBindings[i++];
Restore(VarNames, i, OldBindings, nv) ==
    IF i > Len(VarNames) THEN nv
    ELSE Restore(VarNames, i + 1, OldBindings, Assign(nv, VarNames[i].name, OldBindings[i]))

VarNamesOf(e) == [i \in 1..Len(e.VarNames) |-> e.VarNames[i].name]

\* VarExprAST::codegen lines 224-228, with the scope nv1 it restores.
VarRestored(e, d, nv0, BodyVal, nv1) ==
    Val(Log([BodyVal.g EXCEPT !.nv = nv1], EvVarEnd(d, "ok", VarNamesOf(e), nv0, nv1)),
        BodyVal.v)

\* VarExprAST::codegen after BodyVal = Body->codegen().
VarBodyLowered(e, d, nv0, OldBindings, BodyVal) ==
    IF BodyVal.v = NullV
    THEN Val(Log(BodyVal.g, EvVarEnd(d, "body", VarNamesOf(e), nv0, BodyVal.g.nv)), NullV)
    ELSE VarRestored(e, d, nv0, BodyVal, Restore(e.VarNames, 1, OldBindings, BodyVal.g.nv))

\* VarExprAST::codegen after the first loop.
VarBound(e, d, nv0, B, m) ==
    IF B.v = NullV
    THEN Val(Log(B.g, EvVarEnd(d, "init", VarNamesOf(e), nv0, B.g.nv)), NullV)
    ELSE VarBodyLowered(e, d, nv0, B.OldBindings, codegen(e.Body, B.g, m))

\* VarExprAST::codegen
VarCodegen(e, g, m) ==
    VarBound(e, Len(g.ev) + 1, g.nv,
             VarBindings(e.VarNames, 1, Len(g.ev) + 1, << >>, g, m), m)

\* BinaryExprAST::codegen after L and R are lowered.
BinaryLowered(Op, L, R) ==
    IF L.v = NullV \/ R.v = NullV THEN Val(R.g, NullV) ELSE BinaryEmit(Op, L.v, R.v, R.g)

\* BinaryExprAST::codegen after L is lowered: R is lowered before L is tested.
BinaryLeft(e, L, m) == BinaryLowered(e.Op, L, codegen(e.RHS, L.g, m))

\* BinaryExprAST::codegen
BinaryCodegen(e, g, m) == BinaryLeft(e, codegen(e.LHS, g, m), m)

\* The virtual ExprAST::codegen.
codegen(e, g, m) ==
    CASE e.k = "Number" -> Val(g, ConstantFP)
      [] e.k = "Variable" -> VariableCodegen(e, g)
      [] e.k = "Binary" -> BinaryCodegen(e, g, m)
      [] e.k = "Call" -> CallCodegen(e, g, m)
      [] e.k = "Var" -> VarCodegen(e, g, m)
      [] OTHER -> Val(g, NullV)        \* DummyExprAST::codegen

(***************************************************************************)
(* FunctionAST::codegen, from NamedValues nv and module m.  Yields         *)
(*   m, nv  the module and NamedValues after it                            *)
(*   ok     whether it returns the function (not nullptr)                  *)
(*   ev     the events of the lowering                                     *)
(*   ins    the instructions inserted in the entry block                   *)
(*   ops    the emitter operations made: declaration, block, instructions  *)
(*   ub     whether LLVM was used outside its contract: a load of a value  *)
(*          that is no pointer, or the erasure of a function still called  *)
(***************************************************************************)

\* The failure path: TheFunction, holding the block as far as it was built,
\* is erased.
FunctionErased(m, TheFunction, decl, g) ==
    [m |-> eraseFromParent(m, TheFunction),
     nv |-> g.nv, ok |-> FALSE, ev |-> g.ev, ins |-> g.ins,
     ops |-> decl + 1 + Len(g.ins),
     ub |-> g.ub \/ HasUses(m, TheFunction)]

\* FunctionAST::codegen after RetVal = Body->codegen().
BodyLowered(m, TheFunction, decl, RetVal) ==
    IF RetVal.v # NullV
    THEN [m |-> AppendBlock(m, TheFunction,
                            Append(RetVal.g.ins, Inst("ret", 0, <<RetVal.v>>, ""))),
          nv |-> RetVal.g.nv, ok |-> TRUE, ev |-> RetVal.g.ev,
          ins |-> Append(RetVal.g.ins, Inst("ret", 0, <<RetVal.v>>, "")),
          ops |-> decl + 1 + Len(RetVal.g.ins) + 1, ub |-> RetVal.g.ub]
    ELSE FunctionErased(AppendBlock(m, TheFunction, RetVal.g.ins), TheFunction, decl,
                        RetVal.g)

\* FunctionAST::codegen lines 251-255, with the scope nv at the body's start.
LowerBody(Fn, m, TheFunction, decl, nv) ==
    BodyLowered(m, TheFunction, decl,
                codegen(Fn.Body,
                        [nv |-> nv, ins |-> << >>, nid |-> 1, ub |-> FALSE,
                         ev |-> <<EvBody(m[TheFunction], nv)>>],
                        m))

\* FunctionAST::codegen from line 248, TheFunction being the index of the
\* function in module m, and decl 1 if Proto->codegen() declared it.
FunctionEntry(Fn, nv, m, TheFunction, decl) ==
    LowerBody(Fn, m, TheFunction, decl, BindArgs(clear(nv), m[TheFunction].args, 1))

FunctionCodegen(Fn, nv, m) ==
    IF getFunction(m, Fn.Proto.Name) = 0
    THEN FunctionEntry(Fn, nv, PrototypeCodegen(Fn.Proto, m), Len(m) + 1, 1)
    ELSE FunctionEntry(Fn, nv, m, getFunction(m, Fn.Proto.Name), 0)

-----------------------------------------------------------------------------
(* The inputs: programs as token sequences. *)

Seqs(S, n) == UNION {[1..k -> S] : k \in 0..n}

def == W("def")
extern == W("extern")
var == W("var")
in == W("in")
a == W("a")
b == W("b")
f == W("f")
h == W("h")
x == W("x")
y == W("y")
lp == C("(")
rp == C(")")
eq == C("=")
comma == C(",")
semi == C(";")
plus == C("+")
times == C("*")

\* Top-level units, well formed and malformed.
Catalogue == <<
    <<def, f, lp, a, rp, N(1), semi>>,                      \* def f(a) 1;
    <<def, f, lp, a, rp, a, semi>>,                         \* def f(a) a;
    <<def, f, lp, a, b, rp, a, plus, b, semi>>,             \* def f(a b) a + b;
    <<def, f, lp, b, rp, b, semi>>,                         \* def f(b) b;
    <<def, f, lp, a, rp, y, semi>>,                         \* def f(a) y;
    <<def, f, lp, a, a, rp, a, semi>>,                      \* def f(a a) a;
    <<def, h, lp, rp, f, lp, N(1), rp, semi>>,              \* def h() f(1);
    <<def, f, lp, a, rp, var, x, eq, N(1), in, y, semi>>,   \* def f(a) var x = 1 in y;
    <<def, lp, semi>>,                                      \* def (;
    <<extern, f, lp, a, rp, semi>>,                         \* extern f(a);
    <<extern, f, lp, a, b, rp, semi>>,                      \* extern f(a b);
    <<extern, f, semi>>,                                    \* extern f;
    <<N(1), semi>>,                                         \* 1;
    <<y, semi>>,                                            \* y;
    <<f, lp, N(1), rp, semi>>,                              \* f(1);
    <<f, lp, N(1), comma, N(2), times, N(3), rp, semi>>,    \* f(1, 2 * 3);
    <<f, lp, N(1), N(2), rp, semi>>,                        \* f(1 2);
    <<h, lp, rp, semi>>,                                    \* h();
    <<f, lp, N(1), rp, plus, f, lp, N(1), comma, N(2), rp, semi>>,
                                                            \* f(1) + f(1, 2);
    <<var, x, eq, N(1), in, x, semi>>,                      \* var x = 1 in x;
    <<var, x, in, x, semi>>,                                \* var x in x;
    <<var, x, eq, N(1), comma, x, eq, N(2), in, x, semi>>,  \* var x = 1, x = 2 in x;
    <<var, x, eq, N(5), comma, y, eq, x, plus, N(2), in, x, times, y, semi>>,
                                                            \* var x = 5, y = x + 2 in x * y;
    <<var, x, eq, N(1), in, lp, var, x, eq, x, plus, N(1), in, x, rp, semi>>,
                                                            \* var x = 1 in (var x = x + 1 in x);
    <<var, x, eq, N(1), in, var, x, eq, x, comma, y, eq, x, in, y, semi>>,
                                                            \* var x = 1 in var x = x, y = x in y;
    <<var, x, eq, N(1), in, f, lp, x, comma, x, times, x, rp, semi>>,
                                                            \* var x = 1 in f(x, x * x);
    <<var, x, eq, N(1), in, y, semi>>,                      \* var x = 1 in y;
    <<var, x, eq, y, in, x, semi>>,                         \* var x = y in x;
    <<lp, var, x, eq, N(1), in, y, rp, plus, x, semi>>,     \* (var x = 1 in y) + x;
    <<var, x, eq, N(1), comma, y, eq, lp, var, x, eq, N(2), in, y, rp, in, x, semi>>,
                                                            \* var x = 1, y = (var x = 2 in y) in x;
    <<var, N(1), semi>>,                                    \* var 1;
    <<var, x, eq, N(1), x, semi>>,                          \* var x = 1 x;
    <<var, x, eq, in, semi, N(1), semi>>,                   \* var x = in; 1;
    <<lp, N(1), semi>>,                                     \* (1;
    <<rp, semi>>                                            \* );
>>

\* Programs of more units than MaxUnits, for what only they show.
Scenarios == {
    \* def f(a) 1; def h() f(1); def f(a) y;
    Catalogue[1] \o Catalogue[7] \o Catalogue[5],
    \* var x = 5 in var a = (var x = 1, x = 2 in x), x = x in x;
    <<var, x, eq, N(5), in, var, a, eq, lp, var, x, eq, N(1), comma, x, eq, N(2), in, x, rp,
      comma, x, eq, x, in, x, semi>>,
    \* var x = 1, y = (var x = 2, x = 3 in x), a = x in a;
    <<var, x, eq, N(1), comma, y, eq, lp, var, x, eq, N(2), comma, x, eq, N(3), in, x, rp,
      comma, a, eq, x, in, a, semi>>
}

Ops == {"<", "+", "-", "*"}
Terminators == {<< >>, <<semi>>, <<rp>>, <<C("$")>>, <<in>>}

\* 1 OP 2 OP 3 ... : the primaries are the numbers 1, 2, 3, ...
RECURSIVE ChainTail(_, _)
ChainTail(ops, i) ==
    IF i > Len(ops) THEN << >>
    ELSE <<C(ops[i]), N(i + 1)>> \o ChainTail(ops, i + 1)

Chains == {<<N(1)>> \o ChainTail(ops, 1) \o t : ops \in Seqs(Ops, MaxOps), t \in Terminators}

Programs ==
    {Flatten([i \in 1..Len(us) |-> Catalogue[us[i]]]) : us \in Seqs(1..Len(Catalogue), MaxUnits)}
    \cup Scenarios \cup Chains

-----------------------------------------------------------------------------
(* main *)

\* The parser's globals, from the state.
Globals == [in |-> input, tok |-> CurTok, ids |-> IdentifierStr, num |-> NumVal,
            err |-> FALSE, n |-> 0, vin |-> << >>]

SetGlobals(p) ==
    /\ input' = p.in
    /\ CurTok' = p.tok
    /\ IdentifierStr' = p.ids
    /\ NumVal' = p.num

\* What an iteration of the loop did.
Unit(kind, p, ast, gen, ok, ops, ev, ins, ub) ==
    [kind |-> kind, tok0 |-> CurTok, num0 |-> NumVal, in0 |-> input, nv0 |-> NamedValues,
     m0 |-> TheModule, n |-> p.n, perr |-> p.err, ast |-> ast, gen |-> gen, ok |-> ok,
     ops |-> ops, ev |-> ev, ins |-> ins, ub |-> ub, vin |-> p.vin]

NoUnit ==
    [kind |-> "none", tok0 |-> "", num0 |-> 0, in0 |-> << >>, nv0 |-> << >>, m0 |-> << >>,
     n |-> 0, perr |-> FALSE, ast |-> Null, gen |-> FALSE, ok |-> FALSE, ops |-> 0,
     ev |-> << >>, ins |-> << >>, ub |-> FALSE, vin |-> << >>]

\* The state at the first test of while (true): the globals are constructed and
\* the first token is read.
Init ==
    \E prog \in Programs :
        LET p == getNextToken([in |-> prog, tok |-> "", ids |-> "", num |-> 0,
                               err |-> FALSE, n |-> 0, vin |-> << >>])
        IN  /\ input = p.in
            /\ CurTok = p.tok
            /\ IdentifierStr = p.ids
            /\ NumVal = p.num
            /\ NamedValues = << >>
            /\ TheModule = << >>
            /\ pc = "loop"
            /\ unit = NoUnit

\* case tok_eof: return 0;
MainEof ==
    /\ pc = "loop"
    /\ CurTok = "tok_eof"
    /\ pc' = "done"
    /\ unit' = Unit("eof", Globals, Null, FALSE, FALSE, 0, << >>, << >>, FALSE)
    /\ UNCHANGED <<input, CurTok, IdentifierStr, NumVal, NamedValues, TheModule>>

\* case ';': getNextToken();
MainSemi ==
    /\ pc = "loop"
    /\ CurTok = ";"
    /\ LET p == getNextToken(Globals)
       IN  /\ SetGlobals(p)
           /\ unit' = Unit("semi", p, Null, FALSE, FALSE, 0, << >>, << >>, FALSE)
    /\ UNCHANGED <<NamedValues, TheModule, pc>>

(***************************************************************************)
(* The end of an iteration that ran FunctionAST::codegen with result R     *)
(* after parse P.  Where LLVM was used outside its contract, a build of    *)
(* LLVM with assertions ends the process there (nothing of the unit is     *)
(* recorded then); one without goes on.                                    *)
(***************************************************************************)
Lowered(kind, P, R) ==
    \E assert \in (IF R.ub THEN BOOLEAN ELSE {FALSE}) :
        /\ SetGlobals(P.p)
        /\ IF assert
           THEN /\ pc' = "abort"
                /\ unit' = Unit(kind, P.p, P.r, TRUE, FALSE, 0, << >>, << >>, TRUE)
                /\ UNCHANGED <<NamedValues, TheModule>>
           ELSE /\ pc' = pc
                /\ unit' = Unit(kind, P.p, P.r, TRUE, R.ok, R.ops, R.ev, R.ins, R.ub)
                /\ NamedValues' = R.nv
                /\ TheModule' = R.m

\* The end of an iteration whose parse P returned nullptr: getNextToken().
Skipped(kind, P) ==
    LET p == getNextToken(P.p)
    IN  /\ SetGlobals(p)
        /\ unit' = Unit(kind, p, P.r, FALSE, FALSE, 0, << >>, << >>, FALSE)
        /\ UNCHANGED <<NamedValues, TheModule, pc>>

\* case tok_def, after FnAST = ParseDefinition().
DefParsed(FnAST) ==
    IF FnAST.r # Null
    THEN Lowered("def", FnAST, FunctionCodegen(FnAST.r, NamedValues, TheModule))
    ELSE Skipped("def", FnAST)

\* case tok_def
MainDef ==
    /\ pc = "loop"
    /\ CurTok = "tok_def"
    /\ DefParsed(ParseDefinition(Globals))

\* case tok_extern, after ProtoAST = ParseExtern().
ExternParsed(ProtoAST) ==
    IF ProtoAST.r # Null
    THEN /\ SetGlobals(ProtoAST.p)
         /\ TheModule' = PrototypeCodegen(ProtoAST.r, TheModule)
         /\ unit' = Unit("extern", ProtoAST.p, ProtoAST.r, TRUE, TRUE, 1, << >>, << >>, FALSE)
         /\ UNCHANGED <<NamedValues, pc>>
    ELSE Skipped("extern", ProtoAST)

\* case tok_extern
MainExtern ==
    /\ pc = "loop"
    /\ CurTok = "tok_extern"
    /\ ExternParsed(ParseExtern(Globals))

\* HandleTopLevelExpression after ParseExpression().
ExprParsed(E) ==
    IF E.r # Null
    THEN Lowered("expr", E,
                 FunctionCodegen(FunctionAST(PrototypeAST("__anon_expr", << >>), E.r),
                                 NamedValues, TheModule))
    ELSE Skipped("expr", E)

\* default: HandleTopLevelExpression();
HandleTopLevelExpression ==
    /\ pc = "loop"
    /\ CurTok \notin {"tok_eof", ";", "tok_def", "tok_extern"}
    /\ ExprParsed(ParseExpression(Globals))

Next == MainEof \/ MainSemi \/ MainDef \/ MainExtern \/ HandleTopLevelExpression

Spec == Init /\ [][Next]_vars

-----------------------------------------------------------------------------
(* What the claims speak of. *)

\* The events of kind k of the last unit's lowering, as positions in unit.ev.
Events(k) == {j \in 1..Len(unit.ev) : unit.ev[j].k = k}

\* A scope without the names that map to no handle.
Present(nv) == [n \in {c \in DOMAIN nv : nv[c] # NullV} |-> nv[n]]

\* The last iteration handled a top-level unit: a definition, an extern or an
\* expression.
HandledUnit == unit.kind \in {"def", "extern", "expr"}

\* The last iteration ran FunctionAST::codegen to its end.
LoweredUnit == unit.kind \in {"def", "expr"} /\ unit.gen /\ pc # "abort"

-----------------------------------------------------------------------------
(* C1 *)

\* C1: every iteration of the driver loop that handles a top-level unit
\* (definition, extern or expression), whatever the unit's outcome, reads at
\* least one token of the input.
C1_UnitConsumesToken == HandledUnit => unit.n >= 1

-----------------------------------------------------------------------------
(* C2 *)

\* C2: a unit in which a parser routine reported a parse error is not handed
\* to the code generator, and no emitter operation (declaration, entry
\* block, instruction) is made for it.
C2_ParseErrorNotLowered == (HandledUnit /\ unit.perr) => (~unit.gen /\ unit.ops = 0)

-----------------------------------------------------------------------------
(* C3 *)

\* C3: when the lowering of a VarBinding succeeds, the scope afterwards maps
\* every name as it did when the lowering began, a name mapped to no handle
\* counting as absent.
C3_ScopeRestoredOnSuccess ==
    \A j \in Events("varend") :
        unit.ev[j].why = "ok" => Present(unit.ev[j].nv1) = Present(unit.ev[j].nv0)

-----------------------------------------------------------------------------
(* C4 *)

\* The installations of the VarBinding of initializer event j made before it.
InstalledBefore(j) ==
    {q \in Events("install") : unit.ev[q].d = unit.ev[j].d /\ q < j}

\* The installations of the VarBinding of initializer event j made after it.
InstalledAfter(j) ==
    {q \in Events("install") : unit.ev[q].d = unit.ev[j].d /\ q > j}

\* The storage of the latest binding of the name of installation q among Q.
LatestStorage(Q, q) ==
    unit.ev[CHOOSE r \in Q : /\ unit.ev[r].name = unit.ev[q].name
                            /\ \A t \in Q : unit.ev[t].name = unit.ev[q].name => t <= r].v

\* C4 (the order alone): the initializers of a VarBinding are lowered left to
\* right, the i-th after exactly the bindings before it were installed and
\* before its own storage exists.
C4_InitializerBeforeInstall ==
    \A j \in Events("init") :
        /\ {unit.ev[q].i : q \in InstalledBefore(j)} = 1..(unit.ev[j].i - 1)
        /\ \A q \in InstalledAfter(j) :
               \A n \in DOMAIN unit.ev[j].nv : unit.ev[j].nv[n] # unit.ev[q].v

\* C4: the i-th initializer of a VarBinding is lowered in a scope where the
\* bindings before it of the same list are installed (each of their names
\* maps to the storage of the latest of them of that name) and its own is
\* not, so that an initializer can read an earlier name of the same list.
C4_InitializerScope ==
    \A j \in Events("init") :
        /\ {unit.ev[q].i : q \in InstalledBefore(j)} = 1..(unit.ev[j].i - 1)
        /\ \A q \in InstalledBefore(j) :
               At(unit.ev[j].nv, unit.ev[q].name) = LatestStorage(InstalledBefore(j), q)
        /\ \A q \in InstalledAfter(j) :
               \A n \in DOMAIN unit.ev[j].nv : unit.ev[j].nv[n] # unit.ev[q].v

-----------------------------------------------------------------------------
(* C5 *)

IsOp(c) == c.t = "ch" /\ c.s \in Ops

\* The number of (OP number) pairs at the head of token sequence ts.
RECURSIVE Pairs(_)
Pairs(ts) ==
    IF Len(ts) >= 2 /\ IsOp(ts[1]) /\ ts[2].t = "num"
    THEN 1 + Pairs(SubSeq(ts, 3, Len(ts)))
    ELSE 0

\* The precedences of the reference grammar.
RefPrec(op) == CASE op = "<" -> 10 [] op = "+" -> 20 [] op = "-" -> 20 [] op = "*" -> 40

\* The tree of the reference grammar for  prims[1] ops[1] prims[2] ... : it
\* splits at the last operator of the lowest precedence.
RECURSIVE RefTree(_, _)
RefSplit(prims, ops, r) ==
    BinaryExprAST(ops[r],
                  RefTree(SubSeq(prims, 1, r), SubSeq(ops, 1, r - 1)),
                  RefTree(SubSeq(prims, r + 1, Len(prims)), SubSeq(ops, r + 1, Len(ops))))
RefTree(prims, ops) ==
    IF ops = << >> THEN prims[1]
    ELSE RefSplit(prims, ops,
                  CHOOSE r \in 1..Len(ops) :
                      /\ \A q \in 1..Len(ops) : RefPrec(ops[r]) <= RefPrec(ops[q])
                      /\ \A q \in (r + 1)..Len(ops) : RefPrec(ops[r]) < RefPrec(ops[q]))

\* The last unit was a top-level expression on  number (OP number)*  followed
\* by a token that is not an operator of the table, or by the end of input.
ChainUnit ==
    /\ unit.kind = "expr"
    /\ unit.tok0 = "tok_number"
    /\ Len(unit.in0) > 2 * Pairs(unit.in0) => ~IsOp(unit.in0[2 * Pairs(unit.in0) + 1])

ChainPrims ==
    <<NumberExprAST(unit.num0)>> \o
        [i \in 1..Pairs(unit.in0) |-> NumberExprAST(unit.in0[2 * i].n)]

ChainOps == [i \in 1..Pairs(unit.in0) |-> unit.in0[2 * i - 1].s]

\* C5: on  primary (OP primary)*  ParseExpression builds the tree of the
\* reference grammar (precedences < 10, + and - 20, * 40, equal precedences
\* grouping to the left), and stops at the first token not in the table.
C5_PrecedenceTree ==
    ChainUnit =>
        /\ unit.ast = RefTree(ChainPrims, ChainOps)
        /\ unit.n = 2 * Pairs(unit.in0) + 1
        /\ input = SubSeq(unit.in0, 2 * Pairs(unit.in0) + 2, Len(unit.in0))
        /\ ~unit.perr

\* A chain of three operators parsed to a tree with a product on each side
\* of a sum or comparison.
C5_Witness ==
    /\ ChainUnit
    /\ Pairs(unit.in0) = 3
    /\ unit.ast.k = "Binary"
    /\ unit.ast.Op \in {"+", "<"}
    /\ unit.ast.LHS.k = "Binary" /\ unit.ast.LHS.Op = "*"
    /\ unit.ast.RHS.k = "Binary" /\ unit.ast.RHS.Op = "*"
    /\ CurTok = "$"

-----------------------------------------------------------------------------
(* C6 *)

\* A block that was built to its end: its last instruction, and no other, is
\* a return.
Complete(block) ==
    /\ block # << >>
    /\ \A j \in 1..Len(block) : (block[j].op = "ret") <=> (j = Len(block))

\* The name under which the last unit's function is looked up.
LoweredName == IF unit.kind = "def" THEN unit.ast.Proto.Name ELSE "__anon_expr"

\* C6: after the driver finished a unit, every function of the module is a
\* declaration without blocks or has only blocks built to their return, and
\* a function whose body lowering failed is not in the module.
C6_NoHalfDefinedFunction ==
    pc # "abort" =>
        /\ \A i \in 1..Len(TheModule) : \A k \in 1..Len(TheModule[i].blocks) :
               Complete(TheModule[i].blocks[k])
        /\ (LoweredUnit /\ ~unit.ok) => getFunction(TheModule, LoweredName) = 0

\* A definition over a function already in the module failed after it had
\* inserted instructions in its entry block.
C6_Witness ==
    /\ LoweredUnit /\ ~unit.ok
    /\ unit.ins # << >>
    /\ getFunction(unit.m0, LoweredName) # 0

-----------------------------------------------------------------------------
(* C7 *)

\* The parameter count of function Name when the last unit's body was lowered:
\* that of the function in the module before the unit or, if there was none of
\* that name and the unit declared it, that of the unit's prototype; -1 if the
\* module had no such function.
ArityAtLowering(Name) ==
    IF getFunction(unit.m0, Name) # 0
    THEN Len(unit.m0[getFunction(unit.m0, Name)].args)
    ELSE IF Name = LoweredName
    THEN (IF unit.kind = "def" THEN Len(unit.ast.Proto.Args) ELSE 0)
    ELSE -1

Calls == {j \in 1..Len(unit.ins) : unit.ins[j].op = "call"}

\* C7: the lowering of a Call to a name that is no function of the module, or
\* with a number of arguments that is not the callee's parameter count, fails
\* and emits no call instruction; every call instruction emitted targets a
\* function of the module and passes as many arguments, lowered left to
\* right, as the function has parameters.
C7_CallChecked ==
    /\ \A j \in Events("call") :
           LET c == unit.ev[j]
           IN  /\ (ArityAtLowering(c.callee) # c.n) =>
                      (~c.emitted /\ \A q \in Calls : unit.ins[q].id # c.inst)
               /\ c.emitted => \E q \in Calls : /\ unit.ins[q].id = c.inst
                                                /\ unit.ins[q].callee = c.callee
                                                /\ unit.ins[q].a = c.argv
    /\ \A q \in Calls :
           /\ ArityAtLowering(unit.ins[q].callee) = Len(unit.ins[q].a)
           /\ \E j \in Events("call") : unit.ev[j].emitted /\ unit.ev[j].inst = unit.ins[q].id
           /\ \A i1, i2 \in 1..Len(unit.ins[q].a) :
                  (i1 < i2 /\ unit.ins[q].a[i1].k = "inst" /\ unit.ins[q].a[i2].k = "inst")
                      => unit.ins[q].a[i1].id < unit.ins[q].a[i2].id

\* One unit with a call that was emitted and a call to the same function that
\* failed on its argument count.
C7_Witness ==
    /\ \E j \in Events("call") : unit.ev[j].emitted
    /\ \E j \in Events("call") :
           /\ unit.ev[j].found
           /\ unit.ev[j].arity # unit.ev[j].n
           /\ ~unit.ev[j].emitted
    /\ Calls # {}

-----------------------------------------------------------------------------
(* C8 *)

\* C8: when the body of a function starts to be lowered, the scope binds the
\* names of the parameters of the function being defined, each to its
\* incoming argument, and nothing else: no binding of an earlier unit.
C8_NoLeakAcrossFunctions ==
    \A j \in Events("body") :
        LET e == unit.ev[j]
        IN  /\ DOMAIN e.nv = {e.args[i] : i \in 1..Len(e.args)}
            /\ \A i \in 1..Len(e.args) : e.nv[e.args[i]] = Argument(i)

\* A definition with a parameter was lowered when NamedValues still held the
\* storage of a var of an earlier unit whose body had failed.
C8_Witness ==
    /\ unit.kind = "def"
    /\ \E n \in DOMAIN unit.nv0 : unit.nv0[n].k = "alloca"
    /\ \E j \in Events("body") : unit.ev[j].args # << >>

-----------------------------------------------------------------------------
(* C9 *)

\* C9: when the lowering of a VarBinding's body fails, the scope entry of each
\* name the VarBinding bound is back to the handle (or absence) it had before
\* the VarBinding was lowered when the lowering returns failure.
C9_ScopeRestoredOnBodyFailure ==
    \A j \in Events("varend") :
        unit.ev[j].why = "body" =>
            \A n \in {unit.ev[j].names[i] : i \in 1..Len(unit.ev[j].names)} :
                At(unit.ev[j].nv1, n) = At(unit.ev[j].nv0, n)

-----------------------------------------------------------------------------
(* C10 *)

\* The parameter names of the prototype of the definition last handled.
OwnParams == {unit.ast.Proto.Args[i] : i \in 1..Len(unit.ast.Proto.Args)}

\* C10: when the body of a definition starts to be lowered, every parameter
\* name of the definition's own prototype is bound to an incoming argument of
\* that name's position, and no reference of the body to one of these names
\* fails as an unknown variable.
C10_OwnParamsBound ==
    (unit.kind = "def" /\ unit.gen) =>
        /\ \A j \in Events("body") : \A n \in OwnParams :
               \E i \in 1..Len(unit.ast.Proto.Args) :
                   unit.ast.Proto.Args[i] = n /\ At(unit.ev[j].nv, n) = Argument(i)
        /\ \A j \in Events("ref") : unit.ev[j].name \in OwnParams => unit.ev[j].v # NullV

-----------------------------------------------------------------------------
(* C11 *)

\* C11: wherever ParseVarExpr reaches its test for 'in' after the binding
\* list, it goes on (consumes a token and parses a body) exactly when the
\* current token is the identifier in, and reports "expected 'in'" otherwise.
C11_InIsCurrentToken ==
    \A j \in 1..Len(unit.vin) :
        unit.vin[j].eaten <=> (unit.vin[j].tok = "tok_identifier" /\ unit.vin[j].ids = "in")

-----------------------------------------------------------------------------
(* C12 *)

\* C12: every load instruction the lowering of a unit builds has a storage
\* handle made by an alloca as its operand; an llvm::Argument put in
\* NamedValues at function entry is never the operand of a load.
C12_LoadsFromStorage ==
    \A i \in 1..Len(unit.ins) :
        unit.ins[i].op = "load" => unit.ins[i].a[1].k = "alloca"

-----------------------------------------------------------------------------
(* C13 *)

\* C13: a function that had a body when the driver began a unit is in the
\* module unchanged when the unit is done, whether the unit's lowering
\* succeeded or failed, and no function of the module has more than one
\* entry block.
C13_DefinitionsKept ==
    /\ \A i \in 1..Len(unit.m0) :
           unit.m0[i].blocks # << >> =>
               \E k \in 1..Len(TheModule) : TheModule[k] = unit.m0[i]
    /\ \A k \in 1..Len(TheModule) : Len(TheModule[k].blocks) <= 1

====
